---- MODULE Spec2Model ----
(***************************************************************************)
(* Verification model of rs_part_encoding (src/main.py): the digit         *)
(* quantizer, the Reed-Solomon reference record (Instance / Part), the     *)
(* authenticator Part.check_candidate and the calibration / test loop of   *)
(* main.  The Reed-Solomon codec itself is the reedsolo library, which is  *)
(* not part of src/; it is modelled from section 4.3 of the specification  *)
(* (systematic encoding, syndromes, Berlekamp-Massey, Chien search,        *)
(* Forney) over GF(2^C_EXP).  The log / antilog tables of the field are    *)
(* state (gf_exp, gf_log), built once and read by every field operation.   *)
(***************************************************************************)
EXTENDS Integers, Sequences, FiniteSets, TLC

(***************************************************************************)
(* Program constants.                                                      *)
(***************************************************************************)
\* main.py:11  exponent of the Galois field
C_EXP == 14
\* main.py:56  range(0, 5): symbols emitted per scalar value
K_DIGITS == 5
\* A cap taken from the size of the field instead.
max_check_field_size == 2^C_EXP - 1

\* main.py:288 initial value (cap) of max_check
MAX_CHECK_CAP == 7500

(***************************************************************************)
(* Field Context (spec 4.2): GF(2^C_EXP), generator 2, log / antilog       *)
(* tables.  Addition is bitwise XOR.                                       *)
(***************************************************************************)
field_charac == 2^C_EXP - 1

\* The primitive polynomial of GF(2^14) the codec is built with:
\* x^14 + x^5 + x^3 + x + 1.
prim == 2^14 + 2^5 + 2^3 + 2 + 1

\* Bitwise exclusive or of two naturals (Python's ^).
RECURSIVE xor_bits(_, _)
xor_bits(a, b) ==
    IF a = 0 THEN b
    ELSE IF b = 0 THEN a
    ELSE ((a + b) % 2) + 2 * xor_bits(a \div 2, b \div 2)

\* One multiplication by the generator 2, reduced by prim.
gf_times2(x) ==
    LET y == 2 * x
    IN  IF y > field_charac THEN xor_bits(y, prim) ELSE y

\* <<2^lo, ..., 2^hi>> given first = 2^lo.
RECURSIVE exp_run(_, _, _)
exp_run(lo, hi, first) ==
    IF lo = hi THEN <<first>>
    ELSE LET mid  == (lo + hi) \div 2
             left == exp_run(lo, mid, first)
         IN  left \o exp_run(mid + 1, hi, gf_times2(left[Len(left)]))

\* The antilog table the codec builds: entry i + 1 is 2^i, for i in
\* 0 .. field_charac - 1 (the library stores it twice over to save the
\* modulo; here the index is reduced instead).
init_tables_exp == exp_run(0, field_charac - 1, 1)

RECURSIVE log_pairs(_, _, _)
log_pairs(exp, lo, hi) ==
    IF lo = hi THEN (exp[lo + 1] :> lo)
    ELSE LET mid == (lo + hi) \div 2
         IN  log_pairs(exp, lo, mid) @@ log_pairs(exp, mid + 1, hi)

RECURSIVE log_run(_, _, _)
log_run(f, lo, hi) ==
    IF lo = hi THEN <<f[lo]>>
    ELSE LET mid == (lo + hi) \div 2
         IN  log_run(f, lo, mid) \o log_run(f, mid + 1, hi)

\* The log table the codec builds: entry x is log_2 x, for x in
\* 1 .. field_charac.
init_tables_log(exp) == log_run(log_pairs(exp, 0, field_charac - 1), 1, field_charac)

\* The tables are state of the codec library: built by init_tables when an
\* RSCodec is constructed, read by every field operation.
VARIABLES gf_exp, gf_log

gf_add(x, y) == xor_bits(x, y)

gf_mul(x, y) ==
    IF x = 0 \/ y = 0 THEN 0
    ELSE gf_exp[((gf_log[x] + gf_log[y]) % field_charac) + 1]

gf_div(x, y) ==
    IF x = 0 THEN 0
    ELSE gf_exp[((gf_log[x] + field_charac - gf_log[y]) % field_charac) + 1]

gf_pow(x, power) == gf_exp[((gf_log[x] * power) % field_charac) + 1]

gf_inverse(x) == gf_exp[((field_charac - gf_log[x]) % field_charac) + 1]

(***************************************************************************)
(* Polynomials over the field: sequences of coefficients, highest degree   *)
(* first.                                                                  *)
(***************************************************************************)
\* The sequence s as an explicit tuple (a function written [i \in 1..n |-> e]
\* is otherwise evaluated anew at every application).
Tuple(s) == SubSeq(s, 1, Len(s))

Reverse(s) == Tuple([i \in 1..Len(s) |-> s[Len(s) + 1 - i]])

Zeros(n) == Tuple([i \in 1..n |-> 0])

MaxOf(a, b) == IF a >= b THEN a ELSE b

\* the sum (XOR) of s[lo .. hi]
RECURSIVE xor_range(_, _, _)
xor_range(s, lo, hi) ==
    IF lo > hi THEN 0
    ELSE IF lo = hi THEN s[lo]
    ELSE LET mid == (lo + hi) \div 2
         IN  gf_add(xor_range(s, lo, mid), xor_range(s, mid + 1, hi))

\* the product of s[lo .. hi]
RECURSIVE mul_range(_, _, _)
mul_range(s, lo, hi) ==
    IF lo > hi THEN 1
    ELSE IF lo = hi THEN s[lo]
    ELSE LET mid == (lo + hi) \div 2
         IN  gf_mul(mul_range(s, lo, mid), mul_range(s, mid + 1, hi))

\* max(s) of a sequence of field elements, 0 for the empty one
max_seq(s) ==
    IF \E i \in 1..Len(s) : s[i] # 0
    THEN CHOOSE m \in {s[i] : i \in 1..Len(s)} : \A j \in 1..Len(s) : s[j] <= m
    ELSE 0

gf_poly_scale(p, x) == Tuple([i \in 1..Len(p) |-> gf_mul(p[i], x)])

gf_poly_add(p, q) ==
    LET n == MaxOf(Len(p), Len(q))
    IN  Tuple([i \in 1..n |->
           gf_add(IF i > n - Len(p) THEN p[i - (n - Len(p))] ELSE 0,
                  IF i > n - Len(q) THEN q[i - (n - Len(q))] ELSE 0)])

gf_poly_mul(p, q) ==
    Tuple([k \in 1..(Len(p) + Len(q) - 1) |->
       LET lo == MaxOf(1, k + 1 - Len(q))
           hi == IF k < Len(p) THEN k ELSE Len(p)
       IN  xor_range(Tuple([t \in 1..(hi - lo + 1) |->
                        gf_mul(p[lo + t - 1], q[k + 1 - (lo + t - 1)])]),
                     1, hi - lo + 1)])

\* the product of the polynomials ps[lo .. hi]
RECURSIVE poly_mul_range(_, _, _)
poly_mul_range(ps, lo, hi) ==
    IF lo > hi THEN <<1>>
    ELSE IF lo = hi THEN ps[lo]
    ELSE LET mid == (lo + hi) \div 2
         IN  gf_poly_mul(poly_mul_range(ps, lo, mid), poly_mul_range(ps, mid + 1, hi))

\* the value of poly at x: the sum of poly[i] * x^(n - i)
gf_poly_eval(poly, x) ==
    LET n == Len(poly)
    IN  IF x = 0 THEN poly[n]
        ELSE xor_range(Tuple([i \in 1..n |-> gf_mul(poly[i], gf_pow(x, n - i))]), 1, n)

\* Synthetic division, step i: the multiple of the divisor that cancels
\* msg_out[i] is added to the coefficients that follow it.
poly_div_step(msg_out, divisor, i) ==
    IF msg_out[i] = 0 THEN msg_out
    ELSE Tuple([k \in 1..Len(msg_out) |->
            IF k > i /\ k <= i + Len(divisor) - 1
            THEN gf_add(msg_out[k], gf_mul(divisor[k - i + 1], msg_out[i]))
            ELSE msg_out[k]])

\* Synthetic division: the running dividend after the steps i .. last, taken
\* in their order.
RECURSIVE poly_div_steps(_, _, _, _)
poly_div_steps(msg_out, divisor, i, last) ==
    IF Len(msg_out) = 0 \/ i > last THEN msg_out
    ELSE IF i = last THEN poly_div_step(msg_out, divisor, i)
    ELSE poly_div_steps(poly_div_steps(msg_out, divisor, i, (i + last) \div 2),
                        divisor, ((i + last) \div 2) + 1, last)

\* the last r coefficients of out
last_coefficients(out, r) ==
    IF r = 0 THEN << >>
    ELSE IF r >= Len(out) THEN out
    ELSE SubSeq(out, Len(out) - r + 1, Len(out))

\* Remainder of dividend / divisor (the last Len(divisor) - 1 coefficients).
gf_poly_div_remainder(dividend, divisor) ==
    last_coefficients(
        poly_div_steps(dividend, divisor, 1, Len(dividend) - (Len(divisor) - 1)),
        Len(divisor) - 1)

(***************************************************************************)
(* Codec Engine (spec 4.3).                                                *)
(***************************************************************************)
\* product of (x - 2^i), i in 0 .. nsym-1
rs_generator_poly(nsym) ==
    poly_mul_range(Tuple([i \in 1..nsym |-> <<1, gf_pow(2, i - 1)>>]), 1, nsym)

\* Systematic encoding: data followed by the remainder of data * x^nsym
\* divided by the generator.
rs_encode_msg(msg_in, nsym) ==
    LET gen == rs_generator_poly(nsym)
    IN  msg_in \o gf_poly_div_remainder(msg_in \o Zeros(nsym), gen)

rs_calc_syndromes(msg, nsym) ==
    <<0>> \o Tuple([i \in 1..nsym |-> gf_poly_eval(msg, gf_pow(2, i - 1))])

\* Berlekamp-Massey over the syndromes synd[1..nsym].
\* The discrepancy of turn K for the locator err_loc.
bm_delta(synd, K, err_loc) ==
    gf_add(synd[K + 1],
           xor_range(Tuple([j \in 1..(Len(err_loc) - 1) |->
                        gf_mul(err_loc[Len(err_loc) - j], synd[K - j + 1])]),
                     1, Len(err_loc) - 1))

\* The turns i .. nsym-1 of the loop on <<err_loc, old_loc>>; bm_turn is
\* turn i once old_loc has been extended to old1 and the discrepancy delta
\* computed, bm_swap the case where the two polynomials change places.
RECURSIVE bm_steps(_, _, _, _, _)
RECURSIVE bm_turn(_, _, _, _, _, _)
RECURSIVE bm_swap(_, _, _, _, _, _)
bm_steps(synd, nsym, i, err_loc, old_loc) ==
    IF i >= nsym THEN err_loc
    ELSE bm_turn(synd, nsym, i, err_loc, old_loc \o <<0>>, bm_delta(synd, i, err_loc))

bm_turn(synd, nsym, i, err_loc, old1, delta) ==
    IF Len(old1) > Len(err_loc) /\ delta # 0
    THEN bm_swap(synd, nsym, i, old1, delta, gf_poly_scale(err_loc, gf_inverse(delta)))
    ELSE IF delta # 0
    THEN bm_steps(synd, nsym, i + 1,
                  gf_poly_add(err_loc, gf_poly_scale(old1, delta)), old1)
    ELSE bm_steps(synd, nsym, i + 1, err_loc, old1)

bm_swap(synd, nsym, i, old1, delta, scaled) ==
    bm_steps(synd, nsym, i + 1,
             gf_poly_add(gf_poly_scale(old1, delta), gf_poly_scale(scaled, delta)),
             scaled)

RECURSIVE drop_leading_zeros(_)
drop_leading_zeros(p) ==
    IF Len(p) > 0 /\ p[1] = 0 THEN drop_leading_zeros(Tail(p)) ELSE p

\* The error locator polynomial, with leading zeros dropped.
rs_find_error_locator(synd, nsym) ==
    drop_leading_zeros(bm_steps(synd, nsym, 0, <<1>>, <<1>>))

\* Chien search over the nmess positions of the message: the 0-based
\* positions whose locator evaluates to 0, in the order i = 0 .. nmess-1.
RECURSIVE chien_range(_, _, _, _)
chien_range(err_loc_rev, nmess, lo, hi) ==
    IF lo > hi THEN << >>
    ELSE IF lo = hi
         THEN IF gf_poly_eval(err_loc_rev, gf_pow(2, lo)) = 0
              THEN <<nmess - 1 - lo>> ELSE << >>
    ELSE LET mid == (lo + hi) \div 2
         IN  chien_range(err_loc_rev, nmess, lo, mid)
               \o chien_range(err_loc_rev, nmess, mid + 1, hi)

rs_find_errors(err_loc_rev, nmess) == chien_range(err_loc_rev, nmess, 0, nmess - 1)

\* product of (1 + 2^e_pos[i] x)
rs_find_errata_locator(e_pos) ==
    poly_mul_range(Tuple([i \in 1..Len(e_pos) |->
                      gf_poly_add(<<1>>, <<gf_pow(2, e_pos[i]), 0>>)]),
                   1, Len(e_pos))

rs_find_error_evaluator(synd, err_loc, nsym) ==
    gf_poly_div_remainder(gf_poly_mul(synd, err_loc), <<1>> \o Zeros(nsym + 1))

\* Forney.  X are the error locations 2^(coef_pos - field_charac).
forney_X(coef_pos) ==
    Tuple([i \in 1..Len(coef_pos) |-> gf_pow(2, coef_pos[i] - field_charac)])

\* the derivative of the locator at each location
forney_prime(X) ==
    Tuple([i \in 1..Len(X) |->
       mul_range(Tuple([j \in 1..Len(X) |->
                    IF j = i THEN 1
                    ELSE gf_add(1, gf_mul(gf_inverse(X[i]), X[j]))]),
                 1, Len(X))])

\* the magnitude of error i, given y = X[i] * err_eval(1 / X[i])
forney_magnitude(y, prime_i) == IF y = 0 THEN 0 ELSE gf_div(y, prime_i)

\* the error polynomial E, of length n
forney_E(n, err_pos, X, prime, eval_rev) ==
    Tuple([k \in 1..n |->
       IF \E i \in 1..Len(err_pos) : err_pos[i] + 1 = k
       THEN forney_magnitude(
                gf_mul(X[CHOOSE i \in 1..Len(err_pos) : err_pos[i] + 1 = k],
                       gf_poly_eval(eval_rev,
                           gf_inverse(X[CHOOSE i \in 1..Len(err_pos) : err_pos[i] + 1 = k]))),
                prime[CHOOSE i \in 1..Len(err_pos) : err_pos[i] + 1 = k])
       ELSE 0])

\* [ok |-> the derivative of the locator vanished nowhere,
\*  msg |-> the corrected word]
forney_result(msg, prime, E) ==
    IF \A i \in 1..Len(prime) : prime[i] # 0
    THEN [ok |-> TRUE, msg |-> gf_poly_add(msg, E)]
    ELSE [ok |-> FALSE, msg |-> msg]

forney_with_prime(msg, err_pos, X, prime, eval_rev) ==
    forney_result(msg, prime, forney_E(Len(msg), err_pos, X, prime, eval_rev))

forney_at(msg, err_pos, X, eval_rev) ==
    forney_with_prime(msg, err_pos, X, forney_prime(X), eval_rev)

\* the evaluator polynomial for the locator err_loc, lowest degree last
forney_evaluator(synd, err_loc) ==
    rs_find_error_evaluator(Reverse(synd), err_loc, Len(err_loc) - 1)

forney_located(msg, synd, err_pos, coef_pos) ==
    forney_at(msg, err_pos, forney_X(coef_pos),
              forney_evaluator(synd, rs_find_errata_locator(coef_pos)))

rs_correct_errata(msg, synd, err_pos) ==
    forney_located(msg, synd, err_pos,
                   Tuple([i \in 1..Len(err_pos) |-> Len(msg) - 1 - err_pos[i]]))

\* Decoding of one received word: [ok, data, ecc, errs].  ok = FALSE
\* stands for the ReedSolomonError the decoder raises.
decode_fail == [ok |-> FALSE, data |-> << >>, ecc |-> << >>, errs |-> 0]

decode_done(w, nsym, errs) ==
    [ok |-> TRUE, data |-> SubSeq(w, 1, Len(w) - nsym),
     ecc |-> SubSeq(w, Len(w) - nsym + 1, Len(w)), errs |-> errs]

\* the corrected word is checked once more
decode_fixed(fix, nsym, errs) ==
    IF ~fix.ok THEN decode_fail
    ELSE IF max_seq(rs_calc_syndromes(fix.msg, nsym)) > 0 THEN decode_fail
    ELSE decode_done(fix.msg, nsym, errs)

decode_positions(msg_in, nsym, synd, errs, err_pos) ==
    IF Len(err_pos) # errs THEN decode_fail
    ELSE decode_fixed(rs_correct_errata(msg_in, synd, err_pos), nsym, errs)

decode_locator(msg_in, nsym, synd, err_loc) ==
    IF (Len(err_loc) - 1) * 2 > nsym THEN decode_fail
    ELSE decode_positions(msg_in, nsym, synd, Len(err_loc) - 1,
                          rs_find_errors(Reverse(err_loc), Len(msg_in)))

decode_syndromes(msg_in, nsym, synd) ==
    IF max_seq(synd) = 0 THEN decode_done(msg_in, nsym, 0)
    ELSE decode_locator(msg_in, nsym, synd, rs_find_error_locator(Tail(synd), nsym))

rs_correct_msg(msg_in, nsym) ==
    decode_syndromes(msg_in, nsym, rs_calc_syndromes(msg_in, nsym))

\* RSCodec.encode / RSCodec.decode for messages of one chunk
\* (Len(data) + nsym <= field_charac).
RSCodec_encode(data, nsym) == rs_encode_msg(data, nsym)

RSCodec_decode(data, nsym) == rs_correct_msg(data, nsym)

(***************************************************************************)
(* Scalars.  A measured value is a fixed-point number: the integer v       *)
(* stands for v / Unit.  The inputs drawn below are integers and           *)
(* multiples of 1/16, for which every double-precision operation of the    *)
(* quantizer (abs, * 10, log10, /, -) is exact.                            *)
(***************************************************************************)
FracBits == 4

Unit == 2^FracBits

\* int(math.log10(val)), val > 0: truncation toward zero.
RECURSIVE log10_up(_, _)
log10_up(val, d) ==
    IF 10^(d + 1) * Unit <= val THEN log10_up(val, d + 1) ELSE d

RECURSIVE log10_down(_, _)
log10_down(val, k) ==
    IF val * 10^(k + 1) <= Unit THEN log10_down(val, k + 1) ELSE k

int_log10(val) ==
    IF val >= Unit THEN log10_up(val, 0) ELSE 0 - log10_down(val, 0)

\* int(val / pow(10, digits))
int_div_pow10(val, digits) ==
    IF digits >= 0 THEN val \div (10^digits * Unit)
    ELSE (val * 10^(0 - digits)) \div Unit

\* first_digit * pow(10, digits), in units of 1/Unit
digit_times_pow10(first_digit, digits) ==
    IF digits >= 0 THEN first_digit * 10^digits * Unit
    ELSE (first_digit * Unit) \div 10^(0 - digits)

\* The loop body of Instance.__init__ (main.py 58-68), piece by piece.
\* main.py 61-62
Instance_abs(val) == IF val < 0 THEN val * (0 - 1) ELSE val

\* main.py 63-64
Instance_scale(val) == IF 0 < val /\ val < Unit THEN val * 10 ELSE val

\* The digit taken one decimal place too low.
Instance_first_digit_low_exponent(val, digits) ==
    <<int_div_pow10(val, digits - 1),
      val - digit_times_pow10(int_div_pow10(val, digits - 1), digits - 1)>>

\* main.py 65-68: <<first_digit, val afterwards>>
Instance_first_digit(val, digits) ==
    <<int_div_pow10(val, digits),
      val - digit_times_pow10(int_div_pow10(val, digits), digits)>>

\* main.py 58-68, one pass of the loop body:
\* <<symbol appended, val afterwards>>.
Instance_digit_step(val) ==
    IF val = 0 THEN <<0, val>>
    ELSE Instance_first_digit(Instance_scale(Instance_abs(val)),
                           int_log10(Instance_scale(Instance_abs(val))))

\* main.py 56: the passes i .. K_DIGITS - 1 for one value.
RECURSIVE Instance_digits(_, _, _)
RECURSIVE Instance_append(_, _, _)
Instance_digits(val, i, data) ==
    IF i >= K_DIGITS THEN data
    ELSE Instance_append(Instance_digit_step(val), i, data)

Instance_append(st, i, data) == Instance_digits(st[2], i + 1, Append(data, st[1]))

\* main.py 54-55: the symbols appended for the values vals[lo..hi].
RECURSIVE Instance_quantize_range(_, _, _)
Instance_quantize_range(vals, lo, hi) ==
    IF lo > hi THEN << >>
    ELSE IF lo = hi THEN Instance_digits(vals[lo], 0, << >>)
    ELSE LET mid == (lo + hi) \div 2
         IN  Instance_quantize_range(vals, lo, mid)
               \o Instance_quantize_range(vals, mid + 1, hi)

Instance_quantize(vals) == Instance_quantize_range(vals, 1, Len(vals))

\* The same loop as written in num_differences (main.py 138-148, 155-165).
\* main.py 141-142, 158-159
NumDiff_abs(val) == IF val < 0 THEN val * (0 - 1) ELSE val

\* main.py 143-144, 160-161
NumDiff_scale(val) == IF 0 < val /\ val < Unit THEN val * 10 ELSE val

\* main.py 145-148, 162-165: <<first_digit, val afterwards>>
NumDiff_first_digit(val, digits) ==
    <<int_div_pow10(val, digits),
      val - digit_times_pow10(int_div_pow10(val, digits), digits)>>

\* One pass of the loop body: <<symbol appended, val afterwards>>.
NumDiff_digit_step(val) ==
    IF val = 0 THEN <<0, val>>
    ELSE NumDiff_first_digit(NumDiff_scale(NumDiff_abs(val)),
                           int_log10(NumDiff_scale(NumDiff_abs(val))))

\* The passes i .. K_DIGITS - 1 for one value.
RECURSIVE NumDiff_digits(_, _, _)
RECURSIVE NumDiff_append(_, _, _)
NumDiff_digits(val, i, data) ==
    IF i >= K_DIGITS THEN data
    ELSE NumDiff_append(NumDiff_digit_step(val), i, data)

NumDiff_append(st, i, data) == NumDiff_digits(st[2], i + 1, Append(data, st[1]))

\* The symbols appended for the values vals[lo..hi].
RECURSIVE NumDiff_quantize_range(_, _, _)
NumDiff_quantize_range(vals, lo, hi) ==
    IF lo > hi THEN << >>
    ELSE IF lo = hi THEN NumDiff_digits(vals[lo], 0, << >>)
    ELSE LET mid == (lo + hi) \div 2
         IN  NumDiff_quantize_range(vals, lo, mid)
               \o NumDiff_quantize_range(vals, mid + 1, hi)

NumDiff_quantize(vals) == NumDiff_quantize_range(vals, 1, Len(vals))

\* num_differences (main.py 122-170) on the contents of the two files.
\* The loop runs over the master's positions; a shorter candidate raises
\* IndexError, written -1.
count_differences(master_data, candidate_data) ==
    IF Len(candidate_data) < Len(master_data) THEN 0 - 1
    ELSE Cardinality({i \in 1..Len(master_data) :
                        master_data[i] # candidate_data[i]})

num_differences(master_vals, candidate_vals) ==
    count_differences(NumDiff_quantize(master_vals), NumDiff_quantize(candidate_vals))

(***************************************************************************)
(* Python sequence helpers.                                                *)
(***************************************************************************)
\* s[-n:]  (n >= 0; s[-0:] is the whole sequence)
PyLast(s, n) ==
    IF n = 0 \/ n >= Len(s) THEN s ELSE SubSeq(s, Len(s) - n + 1, Len(s))

(***************************************************************************)
(* Objects.  Arrays live in heap cells and the fields of an Instance hold  *)
(* cell names, so that `encoded = data` and a shared check_digits argument *)
(* are aliases as in Python.                                               *)
(*   "default"   the default argument check_digits=_bytearray() (shared)   *)
(*   "m_data"    the array built by the master's __init__                  *)
(*   "m_encoded" the codeword returned by rsc.encode                       *)
(*   "m_check"   the slice encoded[-num_checks:]                           *)
(*   "c_data"    the array built by the candidate's __init__               *)
(***************************************************************************)
Cells == {"default", "m_data", "m_encoded", "m_check", "c_data"}

EmptyHeap == [c \in Cells |-> << >>]

NoInstance == [num_checks |-> 0, check_digits |-> "none", data |-> "none",
               encoded |-> "none"]

NoPart == [num_checks |-> 0, master |-> NoInstance]

NoDecode == [ok |-> FALSE, data |-> << >>, ecc |-> << >>, errs |-> 0]

\* An Instance whose array is not extended by the check digits.
Instance_without_check_digits(h, cell, num_checks, vals, check_digits) ==
    [heap |-> [h EXCEPT ![cell] = Instance_quantize(vals)],
     inst |-> [num_checks |-> num_checks, check_digits |-> check_digits,
               data |-> cell, encoded |-> cell]]

\* An Instance that extends the array it was handed (check_digits) by its
\* data, instead of its data by the check digits.
Instance_extending_argument(h, cell, num_checks, vals, check_digits) ==
    [heap |-> [h EXCEPT ![cell] = Instance_quantize(vals),
                        ![check_digits] = h[check_digits] \o Instance_quantize(vals)],
     inst |-> [num_checks |-> num_checks, check_digits |-> check_digits,
               data |-> cell, encoded |-> cell]]

\* Instance.__init__ (main.py 39-73): the new array goes to `cell`.
\* data and encoded name the same array, which is extended by the check
\* digits.
Instance_init(h, cell, num_checks, vals, check_digits) ==
    [heap |-> [h EXCEPT ![cell] = Instance_quantize(vals) \o h[check_digits]],
     inst |-> [num_checks |-> num_checks, check_digits |-> check_digits,
               data |-> cell, encoded |-> cell]]

\* main.py 82-84: self.encoded and self.check_digits are bound to the
\* codeword and to its last num_checks symbols.
Instance_set_encoded(h, inst, encoded) ==
    [heap |-> [h EXCEPT !["m_encoded"] = encoded,
                        !["m_check"] = PyLast(encoded, inst.num_checks)],
     inst |-> [inst EXCEPT !.encoded = "m_encoded", !.check_digits = "m_check"]]

\* Instance.calculate_check_digits (main.py 75-85), called on the master.
Instance_calculate_check_digits(h, inst) ==
    Instance_set_encoded(h, inst, RSCodec_encode(h[inst.data], inst.num_checks))

\* main.py 100-101, m being the Instance just built
Part_set_master(num_checks, m) ==
    [heap |-> Instance_calculate_check_digits(m.heap, m.inst).heap,
     part |-> [num_checks |-> num_checks,
               master |-> Instance_calculate_check_digits(m.heap, m.inst).inst]]

\* Part.__init__ (main.py 94-101)
Part_init(h, num_checks, master_vals) ==
    Part_set_master(num_checks,
                    Instance_init(h, "m_data", num_checks, master_vals, "default"))

\* A verdict that ignores the decoder's exception.
decode_verdict_always(dec) == TRUE

\* The verdict of the try / except of Part.check_candidate (main.py 114-118).
decode_verdict(dec) == dec.ok

\* main.py 114-119, dec being what rsc.decode produced
check_candidate_return(h, dec) ==
    [heap |-> h, is_instance |-> decode_verdict(dec), decoded |-> dec]

\* main.py 114-119, c being the candidate Instance just built
check_candidate_decode(prt, c) ==
    check_candidate_return(c.heap, RSCodec_decode(c.heap[c.inst.data], prt.num_checks))

\* Part.check_candidate (main.py 103-119): the heap afterwards, the verdict
\* and what rsc.decode produced.
Part_check_candidate(h, prt, candidate_vals) ==
    check_candidate_decode(prt,
        Instance_init(h, "c_data", prt.num_checks, candidate_vals,
                      prt.master.check_digits))

(***************************************************************************)
(* Bounds of the model and the inputs drawn within them.                   *)
(***************************************************************************)
MaxMantissa   == 110
MaxExp        == 3
MaxSixteenths == 40
MaxDigit      == 2
MaxChecks     == 4

\* the 5-digit integer with decimal digits d[1..5]
Num5(d) == (d[1] * 10000 + d[2] * 1000 + d[3] * 100 + d[4] * 10 + d[5]) * Unit

QScalars ==
    {s * m * 10^e * Unit : s \in {0 - 1, 1}, m \in 0..MaxMantissa, e \in 0..MaxExp}
      \cup {s * k * (Unit \div 16) : s \in {0 - 1, 1}, k \in 0..MaxSixteenths}
      \cup {12345 * Unit, 99999 * Unit, 123456 * Unit, 10203 * Unit}

QPairVals == {0, 105 * Unit, Unit \div 16, (0 - 7) * Unit}

QFiles ==
    {<<v>> : v \in QScalars} \cup {<<v, w>> : v \in QPairVals, w \in QPairVals}

\* values whose first three digits vary
AuthVals == {Num5(d \o <<1, 1>>) : d \in [1..3 -> 1..MaxDigit]} \cup {0}

PadVals == {0, Num5(<<2, 2, 2, 2, 2>>)}

CandidateFiles ==
    {<<v>> : v \in AuthVals} \cup {<<w, v>> : w \in PadVals, v \in AuthVals}

MasterFiles ==
    {<<Num5(<<1, 1, 1, 1, 1>>)>>, <<Num5(<<1, 2, 1, 2, 1>>)>>,
     <<0, Num5(<<1, 1, 1, 1, 1>>)>>}

(***************************************************************************)
(* The test data of main (main.py 244-269) and the contents np.load finds  *)
(* under each name.  fsys names one of the file systems below.             *)
(***************************************************************************)
container_1 ==
    <<"container/con_Ax1_1.npy", "container/con_Ax1_2.npy",
      "container/con_Ax1_3.npy", "container/con_Ax1_4.npy",
      "container/con_Ax1_5.npy">>

container_2 ==
    <<"container/con_Bx2_1.npy", "container/con_Bx2_2.npy",
      "container/con_Bx2_3.npy", "container/con_Bx2_4.npy",
      "container/con_Bx2_5.npy", "container/con_Bx2_6.npy",
      "container/con_Bx2_7.npy", "container/con_Bx2_8.npy",
      "container/con_Bx2_9.npy">>

container_3 ==
    <<"container/con_Cx3_1.npy", "container/con_Cx3_2.npy",
      "container/con_Cx3_3.npy", "container/con_Cx3_4.npy",
      "container/con_Cx3_5.npy">>

lid_1 ==
    <<"lid/lid_Ax4_1.npy", "lid/lid_Ax4_2.npy", "lid/lid_Ax4_3.npy",
      "lid/lid_Ax4_4.npy", "lid/lid_Ax4_5.npy">>

lid_2 ==
    <<"lid/lid_Bx5_1.npy", "lid/lid_Bx5_2.npy", "lid/lid_Bx5_3.npy",
      "lid/lid_Bx5_4.npy", "lid/lid_Bx5_5.npy", "lid/lid_Bx5_6.npy",
      "lid/lid_Bx5_7.npy", "lid/lid_Bx5_8.npy", "lid/lid_Bx5_9.npy">>

lid_3 ==
    <<"lid/lid_Cx6_1.npy", "lid/lid_Cx6_2.npy", "lid/lid_Cx6_3.npy",
      "lid/lid_Cx6_4.npy", "lid/lid_Cx6_5.npy">>

tube ==
    <<"tube/tube_Dx7_1.npy", "tube/tube_Dx7_2.npy",
      "tube/tube_Dx7_3.npy", "tube/tube_Dx7_4.npy",
      "tube/tube_Dx7_5.npy">>

damaged_tube ==
    <<"tube/tube_Dx7_1_damage.npy", "tube/tube_Dx7_2_damage.npy",
      "tube/tube_Dx7_3_damage.npy">>

sensor_1 ==
    <<"sensors/sen_x1_1.npy", "sensors/sen_x1_2.npy",
      "sensors/sen_x1_3.npy", "sensors/sen_x1_4.npy",
      "sensors/sen_x1_5.npy">>

sensor_2 ==
    <<"sensors/sen_x2_1.npy", "sensors/sen_x2_2.npy",
      "sensors/sen_x2_3.npy", "sensors/sen_x2_4.npy",
      "sensors/sen_x2_5.npy">>

sensor_3 ==
    <<"sensors/sen_x3_1.npy", "sensors/sen_x3_2.npy",
      "sensors/sen_x3_3.npy", "sensors/sen_x3_4.npy",
      "sensors/sen_x3_5.npy">>

sensor_4 ==
    <<"sensors/sen_x4_1.npy", "sensors/sen_x4_2.npy",
      "sensors/sen_x4_3.npy", "sensors/sen_x4_4.npy",
      "sensors/sen_x4_5.npy">>

sensor_5 ==
    <<"sensors/sen_x5_1.npy", "sensors/sen_x5_2.npy",
      "sensors/sen_x5_3.npy", "sensors/sen_x5_4.npy",
      "sensors/sen_x5_5.npy">>

tests ==
    <<container_1, container_2, container_3, lid_1, lid_2, lid_3, tube,
      damaged_tube, sensor_1, sensor_2, sensor_3, sensor_4, sensor_5>>

\* the part of tests a file belongs to, and its place in that part
FilePart(file_name) ==
    CHOOSE p \in 1..Len(tests) : \E k \in 1..Len(tests[p]) : tests[p][k] = file_name

FileIndex(files, file_name) ==
    CHOOSE k \in 1..Len(files) : files[k] = file_name

\* number of values of the shortest file of the "long" file system
LongLen == 1093

\* n values, the first Len(first) of them as given, the others equal to rest
Signal(n, first, rest) ==
    Tuple([i \in 1..n |-> IF i <= Len(first) THEN first[i] * Unit ELSE rest * Unit])

\* the value d d d d d with the last or the fourth digit raised by one in
\* every second and third file
Varied(d, k) ==
    CASE k % 3 = 1 -> 11111 * d
      [] k % 3 = 2 -> 11111 * d + 1
      [] k % 3 = 0 -> 11111 * d + 10

\* "near": one value per file.  The files of container_1 are variations of
\* 11111, those of container_2 variations of 33333, those of container_3
\* all 77777; the files of all the other parts hold 55555.
NearValue(p, k) ==
    CASE p = 1 -> Varied(1, k)
      [] p = 2 -> Varied(3, k)
      [] p = 3 -> 77777
      [] OTHER -> 55555

\* "clash": one value per file.  The files of container_1 are all 11111,
\* those of container_2 21111 and 22111 in turn, those of container_3 all
\* 77777; the files of all the other parts hold 55555.
ClashValue(p, k) ==
    CASE p = 1 -> 11111
      [] p = 2 -> IF k % 2 = 1 THEN 21111 ELSE 22111
      [] p = 3 -> 77777
      [] OTHER -> 55555

\* "long": every file holds one value repeated: 11111 and 22222 in turn in
\* the files of container_1, 33333 in all the others.  A file has LongLen
\* values, one more when it is not the first of its part and one more when
\* its part is not container_1.
LongValue(p, k) ==
    IF p = 1 THEN (IF k % 2 = 1 THEN 11111 ELSE 22222) ELSE 33333

LongCount(p, k) ==
    LongLen + (IF p = 1 THEN 0 ELSE 1) + (IF k = 1 THEN 0 ELSE 1)

FileSystems == {"near", "clash", "long"}

\* number of values of the files of container_1 in the "six" file system
SixLen == 200

\* "six": every file holds 11111 repeated, but for the values that follow.
\* In container_1 the files after the first begin with 33311.  The first
\* file of sensor_5 has 11621, 41116, 11115 and 11911 as its 16th, 15th,
\* 13th and 9th value from the end: it differs from the first file of
\* container_1 in 6 symbols.  Every other file begins with 33333.
SixFirst(p, k) ==
    CASE p = 1 -> IF k = 1 THEN << >> ELSE <<33311>>
      [] OTHER -> <<33333>>

\* A file has SixLen values, one more when its part is container_2 and one
\* more again when it is not the first of container_2.
SixCount(p, k) ==
    SixLen + (IF p = 2 THEN 1 ELSE 0) + (IF p = 2 /\ k # 1 THEN 1 ELSE 0)

\* the value that is e-th from the end of the first file of sensor_5
SixFromEnd(e) ==
    CASE e = 16 -> 11621
      [] e = 15 -> 41116
      [] e = 13 -> 11115
      [] e = 9  -> 11911
      [] OTHER  -> 11111

SixContents(p, k) ==
    IF p = 13 /\ k = 1
    THEN Tuple([i \in 1..SixLen |-> SixFromEnd(SixLen - i + 1) * Unit])
    ELSE Signal(SixCount(p, k), SixFirst(p, k), 11111)

file_contents(fs, p, k) ==
    CASE fs = "near"  -> Signal(1, <<NearValue(p, k)>>, 0)
      [] fs = "clash" -> Signal(1, <<ClashValue(p, k)>>, 0)
      [] fs = "long"  -> Signal(LongCount(p, k), << >>, LongValue(p, k))
      [] fs = "six"   -> SixContents(p, k)

file_in_part(fs, p, file_name) ==
    file_contents(fs, p, FileIndex(tests[p], file_name))

np_load(fs, file_name) == file_in_part(fs, FilePart(file_name), file_name)

(***************************************************************************)
(* The calibration arithmetic of main.                                     *)
(***************************************************************************)
\* min_check overwritten at every turn.
update_min_check_last(min, num_diff) == 2 * num_diff

\* main.py 291-292
update_min_check(min, num_diff) ==
    IF 2 * num_diff > min THEN 2 * num_diff ELSE min

\* main.py 297-298
update_max_check(max, num_diff) ==
    IF 2 * num_diff < max THEN 2 * num_diff ELSE max

\* check taken at the upper end of the range.
midpoint_check_upper(min, max) == max

\* main.py 300: int((min_check + max_check) / 2)
midpoint_check(min, max) == (min + max) \div 2

\* The comparison without the case of equality.
too_large_strict(min, max) == min > max

\* main.py 304
too_large(min, max) == min >= max

\* the indices of the parts of tests that differ from part p (main.py 318-319)
OtherParts(p) == {d \in 1..Len(tests) : tests[d] # tests[p]}

\* the first part after d that differs from part p, 0 when there is none
NextOther(p, d) ==
    IF \E e \in OtherParts(p) : e > d
    THEN CHOOSE e \in OtherParts(p) : e > d /\ \A f \in OtherParts(p) : f > d => e <= f
    ELSE 0

(***************************************************************************)
(* State.                                                                  *)
(***************************************************************************)
VARIABLES
    \* quantizer runs
    q_pc, qfile, qdata, qnd,
    \* the reference record and one authentication
    heap, part, a_pc, a_master_vals, a_cand_vals, is_instance, decoded,
    \* main: file system, position, locals
    fsys, m_pc, part_idx, master_name, min_check, max_check, check,
    inst_idx, diff_idx, passed_tests, failed_tests, report

tvars == <<gf_exp, gf_log>>
qvars == <<q_pc, qfile, qdata, qnd>>
ovars == <<heap, part, is_instance, decoded>>
avars == <<a_pc, a_master_vals, a_cand_vals>>
mvars == <<fsys, m_pc, part_idx, master_name, min_check, max_check, check,
           inst_idx, diff_idx, passed_tests, failed_tests, report>>
vars  == <<tvars, qvars, ovars, avars, mvars>>

\* The tables as init_tables leaves them.  Every RSCodec construction
\* rebuilds the same tables, so they do not change afterwards.
TablesBuilt ==
    /\ gf_exp = init_tables_exp
    /\ gf_log = init_tables_log(gf_exp)

\* master = Part(...) has returned r
Constructed(r) ==
    /\ heap' = r.heap
    /\ part' = r.part

\* master.check_candidate(...) has returned r
Returned(r) ==
    /\ heap' = r.heap
    /\ is_instance' = r.is_instance
    /\ decoded' = r.decoded

QIdle == q_pc = "idle" /\ qfile = << >> /\ qdata = << >> /\ qnd = << >>

NoObjects ==
    /\ heap = EmptyHeap /\ part = NoPart
    /\ is_instance = FALSE /\ decoded = NoDecode

AIdle == a_pc = "idle" /\ a_master_vals = << >> /\ a_cand_vals = << >>

MIdle ==
    /\ fsys = "none" /\ m_pc = "idle" /\ part_idx = 0 /\ master_name = ""
    /\ min_check = 0 /\ max_check = 0 /\ check = 0
    /\ inst_idx = 0 /\ diff_idx = 0
    /\ passed_tests = 0 /\ failed_tests = 0 /\ report = "none"

(***************************************************************************)
(* SpecQ: the two copies of the quantization loop applied to a file.       *)
(***************************************************************************)
InitQ ==
    /\ TablesBuilt
    /\ q_pc = "start" /\ qfile \in QFiles /\ qdata = << >> /\ qnd = << >>
    /\ NoObjects /\ AIdle /\ MIdle

\* the loop of Instance.__init__ (main.py 51-70)
RunInstanceQuantizer ==
    /\ q_pc = "start"
    /\ qdata' = Instance_quantize(qfile)
    /\ q_pc' = "instance_done"
    /\ UNCHANGED <<qfile, qnd, tvars, ovars, avars, mvars>>

\* the loop of num_differences (main.py 130-148)
RunNumDiffQuantizer ==
    /\ q_pc = "instance_done"
    /\ qnd' = NumDiff_quantize(qfile)
    /\ q_pc' = "done"
    /\ UNCHANGED <<qfile, qdata, tvars, ovars, avars, mvars>>

NextQ == RunInstanceQuantizer \/ RunNumDiffQuantizer

SpecQ == InitQ /\ [][NextQ]_vars

(***************************************************************************)
(* SpecAuth: a Part is built from a master file, then candidates are       *)
(* checked against it, one call after another.                             *)
(***************************************************************************)
InitAuth ==
    /\ TablesBuilt
    /\ NoObjects
    /\ a_pc = "start" /\ a_master_vals = << >> /\ a_cand_vals = << >>
    /\ QIdle /\ MIdle

\* master = Part(num_checks, master_file_name)
BuildPart ==
    /\ a_pc = "start"
    /\ \E num_checks \in 1..MaxChecks, vals \in MasterFiles :
          /\ Constructed(Part_init(heap, num_checks, vals))
          /\ a_master_vals' = vals
    /\ a_pc' = "ready"
    /\ UNCHANGED <<a_cand_vals, is_instance, decoded, tvars, qvars, mvars>>

\* is_instance = master.check_candidate(candidate_file_name)
CheckCandidate ==
    /\ a_pc = "ready"
    /\ \E vals \in CandidateFiles :
          /\ Returned(Part_check_candidate(heap, part, vals))
          /\ a_cand_vals' = vals
    /\ a_pc' = "returned"
    /\ UNCHANGED <<part, a_master_vals, tvars, qvars, mvars>>

\* The caller has consumed the verdict: the locals of the call (candidate,
\* rsc) are gone.
ReleaseCandidate ==
    /\ a_pc = "returned"
    /\ heap' = [heap EXCEPT !["c_data"] = << >>]
    /\ is_instance' = FALSE
    /\ decoded' = NoDecode
    /\ a_cand_vals' = << >>
    /\ a_pc' = "ready"
    /\ UNCHANGED <<part, a_master_vals, tvars, qvars, mvars>>

NextAuth == BuildPart \/ CheckCandidate \/ ReleaseCandidate

SpecAuth == InitAuth /\ [][NextAuth]_vars

(***************************************************************************)
(* SpecMain: the loop of main over the parts of tests (main.py 282-328):   *)
(* choice of the master, calibration of check, construction of the Part    *)
(* and the tests run against it.                                           *)
(***************************************************************************)
\* main enters `for part in tests` over the file system fs
MainStart(fs) ==
    /\ TablesBuilt
    /\ NoObjects /\ QIdle /\ AIdle
    /\ fsys = fs
    /\ m_pc = "pick" /\ part_idx = 1 /\ master_name = ""
    /\ min_check = 0 /\ max_check = 0 /\ check = 0
    /\ inst_idx = 0 /\ diff_idx = 0
    /\ passed_tests = 0 /\ failed_tests = 0 /\ report = "none"

InitMain == \E fs \in FileSystems : MainStart(fs)

\* the position after the body of `for part in tests`
AfterPart(p) ==
    IF p < Len(tests) THEN [m_pc |-> "pick", part_idx |-> p + 1]
    ELSE [m_pc |-> "done", part_idx |-> p]

\* main.py 284-288: the master is a random file of the part
PickMaster ==
    /\ m_pc = "pick"
    /\ \E k \in 1..Len(tests[part_idx]) : master_name' = tests[part_idx][k]
    /\ min_check' = 0
    /\ max_check' = MAX_CHECK_CAP
    /\ m_pc' = "same"
    /\ UNCHANGED <<fsys, part_idx, check, inst_idx, diff_idx, passed_tests, failed_tests,
                   report, tvars, qvars, ovars, avars>>

\* main.py 290-292: one turn of the loop, num_differences having returned
\* num_diff or raised IndexError (num_diff < 0)
same_turn(min, num_diff) ==
    IF num_diff < 0 THEN [raised |-> TRUE, min_check |-> min]
    ELSE [raised |-> FALSE, min_check |-> update_min_check(min, num_diff)]

\* main.py 289-292: the turns lo .. hi of the loop over the instances of the
\* part, entered in state acc = [raised |-> num_differences raised
\* IndexError, min_check |-> its value]; no turn is taken once the exception
\* is raised.
RECURSIVE same_loop(_, _, _, _, _, _)
same_loop(fs, master, files, lo, hi, acc) ==
    IF acc.raised \/ lo > hi THEN acc
    ELSE IF lo = hi
    THEN same_turn(acc.min_check,
                   num_differences(np_load(fs, master), np_load(fs, files[lo])))
    ELSE same_loop(fs, master, files, ((lo + hi) \div 2) + 1, hi,
                   same_loop(fs, master, files, lo, (lo + hi) \div 2, acc))

SameDone(r) ==
    /\ min_check' = r.min_check
    /\ m_pc' = IF r.raised THEN "IndexError" ELSE "other"

CalibrateSame ==
    /\ m_pc = "same"
    /\ SameDone(same_loop(fsys, master_name, tests[part_idx], 1, Len(tests[part_idx]),
                          [raised |-> FALSE, min_check |-> min_check]))
    /\ UNCHANGED <<fsys, part_idx, master_name, max_check, check, inst_idx, diff_idx,
                   passed_tests, failed_tests, report, tvars, qvars, ovars, avars>>

\* main.py 293-295: the files the nested loops visit, in their order: those
\* of the parts d .. Len(tests) that differ from part p
RECURSIVE other_files(_, _)
other_files(p, d) ==
    IF d > Len(tests) THEN << >>
    ELSE IF tests[d] # tests[p] THEN tests[d] \o other_files(p, d + 1)
    ELSE other_files(p, d + 1)

\* main.py 296-298: one turn
other_turn(max, num_diff) ==
    IF num_diff < 0 THEN [raised |-> TRUE, max_check |-> max]
    ELSE [raised |-> FALSE, max_check |-> update_max_check(max, num_diff)]

\* main.py 293-298: the turns lo .. hi of the loops over the instances of
\* the other parts, entered in state acc = [raised, max_check].
RECURSIVE other_loop(_, _, _, _, _, _)
other_loop(fs, master, files, lo, hi, acc) ==
    IF acc.raised \/ lo > hi THEN acc
    ELSE IF lo = hi
    THEN other_turn(acc.max_check,
                    num_differences(np_load(fs, master), np_load(fs, files[lo])))
    ELSE other_loop(fs, master, files, ((lo + hi) \div 2) + 1, hi,
                    other_loop(fs, master, files, lo, (lo + hi) \div 2, acc))

OtherDone(r) ==
    /\ max_check' = r.max_check
    /\ m_pc' = IF r.raised THEN "IndexError" ELSE "decide"

CalibrateOther ==
    /\ m_pc = "other"
    /\ OtherDone(other_loop(fsys, master_name, other_files(part_idx, 1),
                            1, Len(other_files(part_idx, 1)),
                            [raised |-> FALSE, max_check |-> max_check]))
    /\ UNCHANGED <<fsys, part_idx, master_name, min_check, check, inst_idx, diff_idx,
                   passed_tests, failed_tests, report, tvars, qvars, ovars, avars>>

\* main.py 300-305: the range is empty, the part is given up
ReportTooLarge ==
    /\ m_pc = "decide"
    /\ too_large(min_check, max_check)
    /\ check' = midpoint_check(min_check, max_check)
    /\ report' = "Hamming distance is too large"
    /\ m_pc' = AfterPart(part_idx).m_pc
    /\ part_idx' = AfterPart(part_idx).part_idx
    /\ UNCHANGED <<fsys, master_name, min_check, max_check, inst_idx, diff_idx,
                   passed_tests, failed_tests, tvars, qvars, ovars, avars>>

\* main.py 300-307: master = Part(check, master_name)
ConstructPart ==
    /\ m_pc = "decide"
    /\ ~too_large(min_check, max_check)
    /\ check' = midpoint_check(min_check, max_check)
    /\ report' = "Check should be between"
    /\ Constructed(Part_init(heap, midpoint_check(min_check, max_check),
                             np_load(fsys, master_name)))
    /\ inst_idx' = 1
    /\ m_pc' = "test_same"
    /\ UNCHANGED <<fsys, part_idx, master_name, min_check, max_check, diff_idx,
                   passed_tests, failed_tests, is_instance, decoded,
                   tvars, qvars, avars>>

\* main.py 311-315, 322-326: the test passed or failed
Counted(passed) ==
    /\ passed_tests' = IF passed THEN passed_tests + 1 ELSE passed_tests
    /\ failed_tests' = IF passed THEN failed_tests ELSE failed_tests + 1

\* main.py 309-315: one instance of the part is checked; it should pass
TestSame ==
    /\ m_pc = "test_same"
    /\ Returned(Part_check_candidate(heap, part,
                                     np_load(fsys, tests[part_idx][inst_idx])))
    /\ Counted(is_instance')
    /\ IF inst_idx < Len(tests[part_idx])
       THEN /\ inst_idx' = inst_idx + 1
            /\ UNCHANGED <<m_pc, diff_idx, part_idx>>
       ELSE /\ inst_idx' = 1
            /\ diff_idx' = NextOther(part_idx, 0)
            /\ m_pc' = IF diff_idx' = 0 THEN AfterPart(part_idx).m_pc ELSE "test_other"
            /\ part_idx' = IF diff_idx' = 0 THEN AfterPart(part_idx).part_idx ELSE part_idx
    /\ UNCHANGED <<fsys, master_name, min_check, max_check, check, report, part,
                   tvars, qvars, avars>>

\* main.py 318-326: a random instance of another part is checked; it should
\* be rejected
TestOther ==
    /\ m_pc = "test_other"
    /\ \E k \in 1..Len(tests[diff_idx]) :
          Returned(Part_check_candidate(heap, part,
                                        np_load(fsys, tests[diff_idx][k])))
    /\ Counted(~is_instance')
    /\ diff_idx' = NextOther(part_idx, diff_idx)
    /\ m_pc' = IF diff_idx' = 0 THEN AfterPart(part_idx).m_pc ELSE "test_other"
    /\ part_idx' = IF diff_idx' = 0 THEN AfterPart(part_idx).part_idx ELSE part_idx
    /\ UNCHANGED <<fsys, master_name, min_check, max_check, check, report, part,
                   inst_idx, tvars, qvars, avars>>

NextMain ==
    \/ PickMaster \/ CalibrateSame \/ CalibrateOther
    \/ ReportTooLarge \/ ConstructPart \/ TestSame \/ TestOther

SpecMain == InitMain /\ [][NextMain]_vars

(***************************************************************************)
(* SpecCalls: every call of check_candidate, those of SpecAuth and those   *)
(* main makes, over the file systems of SpecMain and over "six".           *)
(***************************************************************************)
InitCalls == InitAuth \/ InitMain \/ MainStart("six")

NextCalls == NextAuth \/ NextMain

SpecCalls == InitCalls /\ [][NextCalls]_vars

(***************************************************************************)
(* Properties.                                                             *)
(***************************************************************************)
\* the number of positions where two sequences of the same length differ
HammingDistance(a, b) == Cardinality({i \in 1..Len(a) : a[i] # b[i]})

SetMax(S) == CHOOSE m \in S : \A x \in S : x <= m

SetMin(S) == CHOOSE m \in S : \A x \in S : m <= x

(***************************************************************************)
(* Properties of SpecAuth.                                                 *)
(***************************************************************************)
\* the symbols of the master and of the candidate of the current call
MasterData == Instance_quantize(a_master_vals)

CandidateData == Instance_quantize(a_cand_vals)

SameLength == Len(CandidateData) = Len(MasterData)

\* the number of symbol errors the code of the Part corrects
Capacity == part.num_checks \div 2

\* C1: when check_candidate has returned for a candidate of the master's
\* length that differs from the master in at most floor(num_checks / 2)
\* symbols, the word decoded was the candidate's symbols followed by the
\* master's check digits, decoding succeeded and gave back the master's
\* data, and the verdict is True.
C1_AcceptsWithinCapacity ==
    (/\ a_pc = "returned"
     /\ part.num_checks >= 1
     /\ SameLength
     /\ HammingDistance(MasterData, CandidateData) <= Capacity)
    => /\ heap["c_data"] = CandidateData \o heap[part.master.check_digits]
       /\ decoded.ok
       /\ decoded.data = MasterData
       /\ is_instance

\* a candidate with two wrong symbols was corrected by a Part with four
\* check digits
C1_Witness ==
    /\ a_pc = "returned"
    /\ part.num_checks = 4
    /\ SameLength
    /\ HammingDistance(MasterData, CandidateData) = 2
    /\ decoded.errs = 2
    /\ decoded.data = MasterData
    /\ is_instance

\* C3, as stated: a candidate whose symbol sequence is shorter or longer
\* than the master's is always given the verdict False.
C3_LengthMismatchRejected ==
    (/\ a_pc = "returned"
     /\ Len(CandidateData) # Len(MasterData))
    => ~is_instance

\* the verdict of a Part built afresh from the master, on its first call
FreshVerdict(num_checks, master_vals, candidate_vals) ==
    Part_check_candidate(Part_init(EmptyHeap, num_checks, master_vals).heap,
                         Part_init(EmptyHeap, num_checks, master_vals).part,
                         candidate_vals).is_instance

ReferenceCells == {"default", "m_data", "m_encoded", "m_check"}

C7_CallLeavesReference ==
    (a_pc = "ready" /\ a_pc' = "returned")
    => /\ part' = part
       /\ \A c \in ReferenceCells : heap'[c] = heap[c]
       /\ heap'[part.master.data] = MasterData
       /\ heap'[part.master.check_digits]
            = PyLast(heap'[part.master.encoded], part.num_checks)
       /\ is_instance' = FreshVerdict(part.num_checks, a_master_vals, a_cand_vals')

\* C7: every call of check_candidate leaves the Part as it was: num_checks,
\* the arrays of master.data, master.encoded and master.check_digits and
\* the shared default argument of Instance; and its verdict is the one a
\* Part built afresh from the same master gives on its first call.
C7_ReferenceUnchanged == [][C7_CallLeavesReference]_vars

\* a call has returned, the candidate's array holds its symbols and the
\* check digits, and the arrays of the reference are those of construction
C7_Witness ==
    /\ a_pc = "returned"
    /\ Len(heap["c_data"]) = Len(CandidateData) + part.num_checks
    /\ heap["default"] = << >>
    /\ heap["m_data"] = MasterData
    /\ heap["m_encoded"] = RSCodec_encode(MasterData, part.num_checks)
    /\ heap["m_check"] = PyLast(heap["m_encoded"], part.num_checks)

(***************************************************************************)
(* Properties of SpecQ.                                                    *)
(***************************************************************************)
\* the symbols appended for the k-th value of the file
SymbolsOf(data, k) == SubSeq(data, 5 * (k - 1) + 1, 5 * k)

\* C8: the quantizer of Instance.__init__ emits exactly 5 symbols per
\* value, each of them a decimal digit 0..9, and five zeros for a value
\* equal to 0.
C8_FiveDigitsPerValue ==
    q_pc \in {"instance_done", "done"}
    => /\ Len(qdata) = 5 * Len(qfile)
       /\ \A i \in 1..Len(qdata) : qdata[i] \in 0..9
       /\ \A k \in 1..Len(qfile) :
             qfile[k] = 0 => SymbolsOf(qdata, k) = <<0, 0, 0, 0, 0>>

\* a file of a zero and a nonzero value has been quantized
C8_Witness ==
    /\ q_pc = "instance_done"
    /\ Len(qfile) = 2
    /\ qfile[1] = 0
    /\ qfile[2] # 0
    /\ SymbolsOf(qdata, 1) = <<0, 0, 0, 0, 0>>
    /\ SymbolsOf(qdata, 2) # <<0, 0, 0, 0, 0>>

\* the j-th decimal digit of val / Unit >= 1, counted from its leading digit
DecimalDigit(val, j) ==
    IF int_log10(val) - (j - 1) >= 0
    THEN (val \div (10^(int_log10(val) - (j - 1)) * Unit)) % 10
    ELSE ((val * 10^((j - 1) - int_log10(val))) \div Unit) % 10

FirstFiveDigits(val) == [j \in 1..5 |-> DecimalDigit(val, j)]

AbsVal(v) == IF v < 0 THEN 0 - v ELSE v

\* C9, as stated: for a value v with |v| >= 1 the five symbols are the first
\* five decimal digits of |v| from its leading digit, zeros inside the number
\* included, and the loop of num_differences gives the same symbols as the
\* loop of Instance.__init__.
C9_FirstFiveDecimalDigits ==
    q_pc = "done"
    => /\ qnd = qdata
       /\ \A k \in 1..Len(qfile) :
             AbsVal(qfile[k]) >= Unit
             => SymbolsOf(qdata, k) = FirstFiveDigits(AbsVal(qfile[k]))

(***************************************************************************)
(* Properties of SpecMain.                                                 *)
(***************************************************************************)
SignalDistance(fs, master, file_name) ==
    HammingDistance(Instance_quantize(np_load(fs, master)),
                    Instance_quantize(np_load(fs, file_name)))

\* the distances from the master to the signals of its part and to those of
\* the other parts
SameDistances ==
    {SignalDistance(fsys, master_name, tests[part_idx][i]) :
       i \in 1..Len(tests[part_idx])}

OtherDistances ==
    UNION {{SignalDistance(fsys, master_name, tests[d][i]) : i \in 1..Len(tests[d])} :
             d \in OtherParts(part_idx)}

MasterDataLength == Len(Instance_quantize(np_load(fsys, master_name)))

\* C4: when the calibration loops are done, min_check is twice the largest
\* distance from the master to a signal of its part, and max_check is twice
\* the smallest distance to a signal of another part when that is below the
\* upper bound, the upper bound otherwise; distances 2, 4, 6 and 50, 60
\* give 12 and 100.
C4_CalibratedRange ==
    /\ m_pc = "decide"
       => /\ min_check = 2 * SetMax(SameDistances)
          /\ max_check = IF 2 * SetMin(OtherDistances) < 7500
                         THEN 2 * SetMin(OtherDistances) ELSE 7500
    /\ update_min_check(update_min_check(update_min_check(0, 2), 4), 6) = 12
    /\ update_max_check(update_max_check(MAX_CHECK_CAP, 50), 60) = 100

\* a calibration has ended with both ends of the range set by a distance
C4_Witness ==
    /\ m_pc = "decide"
    /\ min_check = 2 * SetMax(SameDistances)
    /\ min_check > 0
    /\ max_check = 2 * SetMin(OtherDistances)
    /\ max_check < 7500
    /\ min_check < max_check

\* C5, as stated: the upper bound of max_check is 2^C_EXP - 1 minus the
\* data length of the master: max_check never exceeds it and equals it when
\* every distance to another part is at least half of it.
C5_CapIsFeasibleCheckLength ==
    m_pc = "decide"
    => /\ max_check <= 2^C_EXP - 1 - MasterDataLength
       /\ (\A d \in OtherDistances : 2 * d >= 2^C_EXP - 1 - MasterDataLength)
          => max_check = 2^C_EXP - 1 - MasterDataLength

\* C5, amended: the upper bound of max_check is the constant 7500, whatever
\* the data length: max_check never exceeds 7500 and equals 7500 when every
\* distance to another part is at least 3750.
C5_CapIsConstant ==
    m_pc = "decide"
    => /\ max_check <= 7500
       /\ (\A d \in OtherDistances : 2 * d >= 7500) => max_check = 7500

\* a calibration has ended at the cap, which is not the feasible check
\* length of the master
C5_Witness ==
    /\ m_pc = "decide"
    /\ \A d \in OtherDistances : 2 * d >= 7500
    /\ max_check = 7500
    /\ 2^C_EXP - 1 - MasterDataLength # 7500

C6_EmptyRangeStep ==
    (m_pc = "decide" /\ min_check >= max_check)
    => /\ report' = "Hamming distance is too large"
       /\ m_pc' \in {"pick", "done"}
       /\ m_pc' = "pick" => part_idx' = part_idx + 1
       /\ part' = part
       /\ heap' = heap
       /\ is_instance' = is_instance
       /\ decoded' = decoded
       /\ passed_tests' = passed_tests
       /\ failed_tests' = failed_tests

\* C6: when the calibration of a part ends with min_check >= max_check, the
\* step that follows reports it and ends the turn of that part: no Part is
\* built, check_candidate is not called, and passed_tests and failed_tests
\* keep their values.
C6_EmptyRangeReported == [][C6_EmptyRangeStep]_vars

\* an empty range has been reported and the turn of the part is over
C6_Witness ==
    /\ report = "Hamming distance is too large"
    /\ min_check >= max_check
    /\ m_pc \in {"pick", "done"}
    /\ check = midpoint_check(min_check, max_check)

\* C10: while main runs the tests of a part, the Part was built with a check
\* value such that min_check < check < max_check <= 7500, and
\* floor(check / 2) is at least the largest distance from the master to a
\* signal of its part and less than the smallest distance to a signal of
\* another part.
C10_CheckInsideRange ==
    m_pc \in {"test_same", "test_other"}
    => /\ part.num_checks = check
       /\ min_check < check
       /\ check < max_check
       /\ max_check <= 7500
       /\ check \div 2 >= SetMax(SameDistances)
       /\ check \div 2 < SetMin(OtherDistances)

\* a Part has been built that corrects at least one symbol, for a part with
\* a signal that differs from the master
C10_Witness ==
    /\ m_pc = "test_same"
    /\ part.num_checks = check
    /\ min_check < check
    /\ check < max_check
    /\ check \div 2 >= 1
    /\ SetMax(SameDistances) >= 1

(***************************************************************************)
(* Properties of SpecCalls.                                                *)
(***************************************************************************)
\* a step in which check_candidate is called and returns
CallStep ==
    \/ a_pc = "ready" /\ a_pc' = "returned"
    \/ m_pc \in {"test_same", "test_other"}

\* the master's symbols, the word handed to the decoder and the candidate's
\* symbols, which are the word without its last num_checks symbols
CallMaster == heap[part.master.data]

CallWord == heap["c_data"]

CallSymbols == SubSeq(CallWord, 1, Len(CallWord) - part.num_checks)

CallSameLength == Len(CallSymbols) = Len(CallMaster)

CallDistance == HammingDistance(CallMaster, CallSymbols)

\* the symbols of the first file of container_1 and of the first file of
\* sensor_5 in the file system "six"
SixMasterData == Instance_quantize(SixContents(1, 1))

SixCandidateData == Instance_quantize(SixContents(13, 1))

C2_CallAsStated ==
    CallStep
    => /\ (CallSameLength' /\ CallDistance' > Capacity) => ~is_instance'
       /\ (part.num_checks = 8 /\ CallSameLength' /\ CallDistance' = 6)
          => ~is_instance'
       /\ m_pc = "test_other" => ~is_instance'

\* C2, as stated: every call of check_candidate returns False for a
\* candidate of the master's length that differs from the master in more
\* than floor(num_checks / 2) symbols; with num_checks = 8 it returns False
\* for every candidate that differs in exactly 6 symbols; and in main it
\* returns False for every instance of a different part.
C2_RejectsBeyondCapacity == [][C2_CallAsStated]_vars

C2_CallAsAmended ==
    CallStep
    => /\ a_pc = "ready"
          => /\ CallMaster' = Instance_quantize(a_master_vals)
             /\ CallSymbols' = Instance_quantize(a_cand_vals')
       /\ m_pc \in {"test_same", "test_other"}
          => CallMaster' = Instance_quantize(np_load(fsys, master_name))
       /\ m_pc = "test_same"
          => CallSymbols' = Instance_quantize(np_load(fsys, tests[part_idx][inst_idx]))
       /\ m_pc = "test_other"
          => /\ \E k \in 1..Len(tests[diff_idx]) :
                   CallSymbols' = Instance_quantize(np_load(fsys, tests[diff_idx][k]))
             /\ failed_tests' = failed_tests + (IF is_instance' THEN 1 ELSE 0)
       /\ CallWord' = CallSymbols' \o heap[part.master.check_digits]
       /\ is_instance' = decoded'.ok
       /\ (CallSameLength' /\ CallDistance' > Capacity)
          => /\ CallDistance' <= part.num_checks - Capacity => ~is_instance'
             /\ is_instance'
                => /\ decoded'.data # CallMaster'
                   /\ HammingDistance(decoded'.data \o decoded'.ecc, CallWord') <= Capacity
                   /\ RSCodec_encode(decoded'.data, part.num_checks)
                        = decoded'.data \o decoded'.ecc
       /\ (/\ part.num_checks = 8
           /\ CallMaster' = SixMasterData
           /\ CallSymbols' = SixCandidateData)
          => /\ CallDistance' = 6
             /\ is_instance'
             /\ decoded'.errs = 4

\* C2, amended: in every call of check_candidate, those of main on the
\* instances of the master's part and of the other parts included, the word
\* decoded is the candidate's symbols followed by the master's check digits
\* and the verdict is True exactly when the decoder succeeds.
\* A candidate of the master's length that differs from the master in more
\* than floor(num_checks / 2) symbols is rejected when it differs in at
\* most num_checks - floor(num_checks / 2) symbols; when it is accepted,
\* the decoder has corrected its word to a codeword within
\* floor(num_checks / 2) symbols of it whose data are not the master's.
\* With num_checks = 8 the candidate of the file system "six", which
\* differs from its master in exactly 6 symbols, is accepted, the decoder
\* having changed 4 symbols; and in main an instance of a different part
\* that is accepted is counted as a failed test.
C2_RejectsUnlessNearAnotherCodeword == [][C2_CallAsAmended]_vars

\* main has calibrated check = 8 for the first file of container_1 in the
\* file system "six", and the last test of the part, on the instance of
\* sensor_5 that differs from the master in exactly 6 symbols, has accepted
\* it: the test is counted as failed
C2_Witness ==
    /\ fsys = "six"
    /\ m_pc = "pick"
    /\ part_idx = 2
    /\ check = 8
    /\ part.num_checks = 8
    /\ CallMaster = SixMasterData
    /\ CallSymbols = SixCandidateData
    /\ CallDistance = 6
    /\ CallDistance > Capacity
    /\ is_instance
    /\ decoded.errs = 4
    /\ decoded.data # CallMaster
    /\ failed_tests = 1

Spec == SpecMain
====
